---- MODULE Spec2Model ----
(***************************************************************************)
(* Continuous capture, chunked transcription and speaker attribution of    *)
(* PromptlingoMobile.                                                      *)
(*                                                                         *)
(*   Spec     LiveTranscriptionService (caption mode): MediaRecorder,      *)
(*            chunk timer, processCurrentChunk, the processingQueue        *)
(*            promise chain, transcribeChunk and stop().                   *)
(*   SpecCAR  ContinuousAudioRecorder (speaker/transcript mode) together   *)
(*            with the continuousRecording part of translationReducer.     *)
(*                                                                         *)
(* Audio is a sequence of ticks (one tick = one second of microphone       *)
(* time); a Blob is the sequence of ticks it holds.  Volumes are in        *)
(* thousandths (0.01 = 10).                                                *)
(***************************************************************************)
EXTENDS Integers, Sequences, FiniteSets, TLC

\* ---------------------------------------------------------------- bounds
MaxClock == 6
MaxLiveClock == 4
MaxCarClock == 2
MaxCarBoundaries == 3
MaxSpeakers == 2
MaxDurationTicks == 3
MaxServices == 3
MaxArrivals == 4
MaxCapTicks == 2
MaxFadeTicks == 102

\* ------------------------------------------------------ program constants
silenceThreshold == 10
ErrorVolume == 1000
MinChunkDuration == 2
DefaultChunkDuration == 3
fadeStartAge == 5000
fadeEndAge == 10000
fadeInterval == 100
MinMaxCaptions == 3
DefaultMaxCaptions == 5

VARIABLES
  \* LiveTranscriptionService
  startPc,        \* position of start(): "new", "acquiring", "started", "failed"
  isRecording,
  chunkTimer,     \* a setTimeout of scheduleNextChunk is pending
  timerLeft,      \* ticks until the pending timeout fires
  chunkDuration,  \* config.chunkDuration, in ticks
  targetLanguage, \* config.targetLanguage, "" when none is set
  mediaRecorder,  \* "null", or the recorder's state "inactive" / "recording"
  audioStream,    \* the microphone stream is live
  audioContext,   \* "running" or "null"
  recorded,       \* ticks gathered by the MediaRecorder since its start()
  dataEvents,     \* dataavailable events queued by MediaRecorder.stop()
  audioChunks,
  clock,
  pccWait,        \* who is in processCurrentChunk's 100 ms wait: "none", "timer", "stop"
  jobs,           \* the callbacks chained on processingQueue, in chaining order
  chunkCounter,
  stopPc,         \* position of stop(): "none", "flush", "drain", "closing", "done"
  stopTail,       \* the promise stop() awaits: number of callbacks chained by then
  status,         \* last onStatusChange
  emitted,        \* onChunkTranscribed calls, in call order
  captured,       \* every tick the MediaRecorder has gathered
  enqAtStop,      \* number of callbacks chained when stop() was called
  pendingAtStop,  \* what the recorder had gathered when stop() was called
  boundaries,     \* chunk-timer callbacks run so far
  boundaryAfterStop,
  errors,         \* onError calls
  deviceLost,     \* the MediaRecorder has fired its error event
  \* ContinuousAudioRecorder + continuousRecording reducer state
  speakers, currentSpeaker, segments, crIsRecording, crIsPaused,
  mediaRecorderRef, audioChunksRef, streamRef, chunkTimerRef, timerSpeaker,
  carRecorded, carDataEvents, carClock, requests, nextChunk, carCaptured,
  carBoundaries,
  submitted,      \* ticks posted to /api/transcribe so far
  resubmitted     \* some tick was posted a second time

\* ContinuousAudioRecorder: the session duration and the pause
VARIABLES
  totalDuration,    \* continuousRecording.totalDuration
  timerDuration,    \* the totalDuration of the render in which startRecording ran
  durationTimerRef, \* the duration interval is set
  durationTicks,    \* the duration-timer callbacks run since startRecording
  prePause,         \* the ticks the recorder held at a pause, until a chunk is submitted
  lostAfterResume   \* the first chunk submitted after a resume lacked some of them

sessVars == <<totalDuration, timerDuration, durationTimerRef, durationTicks>>

pauseVars == <<prePause, lostAfterResume>>

\* LiveTranscriptionCaptions (the component that creates the services)
VARIABLES
  capServices,      \* the LiveTranscriptionService instances created so far
  serviceRef,       \* serviceRef.current: an index of capServices, 0 for null
  capIsRecording    \* the component's isRecording state

ltsVars == <<startPc, isRecording, chunkTimer, timerLeft, chunkDuration, targetLanguage,
             mediaRecorder, audioStream, audioContext, recorded, dataEvents,
             audioChunks, clock, pccWait, jobs, chunkCounter, stopPc, stopTail,
             status, emitted, captured, enqAtStop, pendingAtStop, boundaries, boundaryAfterStop,
             errors, deviceLost>>

carVars == <<speakers, currentSpeaker, segments, crIsRecording, crIsPaused,
             mediaRecorderRef, audioChunksRef, streamRef, chunkTimerRef,
             timerSpeaker, carRecorded, carDataEvents, carClock, requests,
             nextChunk, carCaptured, carBoundaries, submitted, resubmitted>>

\* LiveTranscriptionCaptions: the caption lines
VARIABLES
  captions,         \* the captions state, oldest first; opacity in thousandths
  maxCaptions,      \* the maxCaptions state
  capNow,           \* Date.now(), in ms
  captionCount      \* the number of captions that have arrived

fadeVars == <<captions, maxCaptions, capNow, captionCount>>

capVars == <<capServices, serviceRef, capIsRecording>>

vars == <<ltsVars, carVars, capVars, fadeVars, sessVars, pauseVars>>

\* ---------------------------------------------------------------- helpers
RECURSIVE Flatten(_)
\* new Blob(parts): the concatenation of the parts
Flatten(parts) ==
  IF parts = <<>> THEN <<>> ELSE Head(parts) \o Flatten(Tail(parts))

Range(s) == {s[i] : i \in DOMAIN s}

Volumes == {silenceThreshold - 1, silenceThreshold}

\* config.language
language == "en"

\* ============================================================ the service
ServiceInit ==
  /\ startPc = "new"
  /\ isRecording = FALSE
  /\ chunkTimer = FALSE
  /\ timerLeft = 0
  /\ chunkDuration \in {MinChunkDuration, DefaultChunkDuration}
  /\ targetLanguage \in {"", language, "es"}
  /\ mediaRecorder = "null"
  /\ audioStream = FALSE
  /\ audioContext = "running"
  /\ recorded = <<>>
  /\ dataEvents = <<>>
  /\ audioChunks = <<>>
  /\ clock = 0
  /\ pccWait = "none"
  /\ jobs = <<>>
  /\ chunkCounter = 0
  /\ stopPc = "none"
  /\ stopTail = 0
  /\ status = "idle"
  /\ emitted = <<>>
  /\ captured = {}
  /\ enqAtStop = 0
  /\ pendingAtStop = <<>>
  /\ boundaries = 0
  /\ boundaryAfterStop = FALSE
  /\ errors = 0
  /\ deviceLost = FALSE

\* start(), up to the await of getUserMedia
StartCall ==
  /\ startPc = "new"
  /\ startPc' = "acquiring"
  /\ status' = "recording"
  /\ UNCHANGED <<isRecording, chunkTimer, timerLeft, chunkDuration, targetLanguage,
                 mediaRecorder, audioStream, audioContext, recorded, dataEvents,
                 audioChunks, clock, pccWait, jobs, chunkCounter, stopPc, stopTail,
                 emitted, captured, enqAtStop, pendingAtStop, boundaries, boundaryAfterStop, errors>>
  /\ UNCHANGED deviceLost
  /\ UNCHANGED carVars
  /\ UNCHANGED capVars
  /\ UNCHANGED fadeVars
  /\ UNCHANGED sessVars
  /\ UNCHANGED pauseVars

\* start(), after getUserMedia resolved: recorder created and started, timer armed
StartAcquired ==
  /\ startPc = "acquiring"
  /\ startPc' = "started"
  /\ audioStream' = TRUE
  /\ mediaRecorder' = "recording"
  /\ recorded' = <<>>
  /\ isRecording' = TRUE
  /\ chunkTimer' = TRUE
  /\ timerLeft' = chunkDuration
  /\ UNCHANGED <<chunkDuration, targetLanguage, audioContext, dataEvents, audioChunks,
                 clock, pccWait, jobs, chunkCounter, stopPc, stopTail, status,
                 emitted, captured, enqAtStop, pendingAtStop, boundaries, boundaryAfterStop, errors>>
  /\ UNCHANGED deviceLost
  /\ UNCHANGED carVars
  /\ UNCHANGED capVars
  /\ UNCHANGED fadeVars
  /\ UNCHANGED sessVars
  /\ UNCHANGED pauseVars

StartRejectedSilent ==
  /\ startPc = "acquiring"
  /\ startPc' = "failed"
  /\ UNCHANGED <<isRecording, chunkTimer, timerLeft, chunkDuration, targetLanguage,
                 mediaRecorder, audioStream, audioContext, recorded, dataEvents,
                 audioChunks, clock, pccWait, jobs, chunkCounter, stopPc, stopTail,
                 status, emitted, captured, enqAtStop, pendingAtStop, boundaries,
                 boundaryAfterStop, errors>>
  /\ UNCHANGED deviceLost
  /\ UNCHANGED carVars
  /\ UNCHANGED capVars
  /\ UNCHANGED fadeVars
  /\ UNCHANGED sessVars
  /\ UNCHANGED pauseVars

\* start(), getUserMedia rejected: the catch block
StartRejected ==
  /\ startPc = "acquiring"
  /\ startPc' = "failed"
  /\ status' = "error"
  /\ errors' = errors + 1
  /\ UNCHANGED <<isRecording, chunkTimer, timerLeft, chunkDuration, targetLanguage,
                 mediaRecorder, audioStream, audioContext, recorded, dataEvents,
                 audioChunks, clock, pccWait, jobs, chunkCounter, stopPc, stopTail,
                 emitted, captured, enqAtStop, pendingAtStop, boundaries, boundaryAfterStop>>
  /\ UNCHANGED deviceLost
  /\ UNCHANGED carVars
  /\ UNCHANGED capVars
  /\ UNCHANGED fadeVars
  /\ UNCHANGED sessVars
  /\ UNCHANGED pauseVars

\* start(), getUserMedia resolved and a later statement of the try block
\* threw (new MediaRecorder with an unsupported mimeType, mediaRecorder.start):
\* the same catch block runs, with this.audioStream already assigned
StartThrew ==
  /\ startPc = "acquiring"
  /\ startPc' = "threw"
  /\ audioStream' = TRUE
  /\ status' = "error"
  /\ errors' = errors + 1
  /\ UNCHANGED <<isRecording, chunkTimer, timerLeft, chunkDuration, targetLanguage,
                 mediaRecorder, audioContext, recorded, dataEvents,
                 audioChunks, clock, pccWait, jobs, chunkCounter, stopPc, stopTail,
                 emitted, captured, enqAtStop, pendingAtStop, boundaries, boundaryAfterStop>>
  /\ UNCHANGED deviceLost
  /\ UNCHANGED carVars
  /\ UNCHANGED capVars
  /\ UNCHANGED fadeVars
  /\ UNCHANGED sessVars
  /\ UNCHANGED pauseVars

\* One second of microphone time passes.  A pending timeout that is due fires
\* before more time passes; the 100 ms wait of processCurrentChunk is shorter
\* than a tick.
Tick ==
  /\ startPc = "started"
  /\ stopPc = "none"
  /\ pccWait = "none"
  /\ dataEvents = <<>>
  /\ clock < MaxClock
  /\ ~(chunkTimer /\ timerLeft = 0)
  /\ clock' = clock + 1
  /\ timerLeft' = IF chunkTimer THEN timerLeft - 1 ELSE timerLeft
  /\ IF mediaRecorder = "recording"
       THEN /\ recorded' = Append(recorded, clock + 1)
            /\ captured' = captured \cup {clock + 1}
       ELSE UNCHANGED <<recorded, captured>>
  /\ UNCHANGED <<startPc, isRecording, chunkTimer, chunkDuration, targetLanguage,
                 mediaRecorder, audioStream, audioContext, dataEvents, audioChunks,
                 pccWait, jobs, chunkCounter, stopPc, stopTail, status, emitted,
                 enqAtStop, pendingAtStop, boundaries, boundaryAfterStop, errors>>
  /\ UNCHANGED deviceLost
  /\ UNCHANGED carVars
  /\ UNCHANGED capVars
  /\ UNCHANGED fadeVars
  /\ UNCHANGED sessVars
  /\ UNCHANGED pauseVars

\* the MediaRecorder's queued dataavailable event reaches ondataavailable
DataAvailable ==
  /\ dataEvents # <<>>
  /\ dataEvents' = Tail(dataEvents)
  /\ audioChunks' = IF Len(Head(dataEvents)) > 0
                      THEN Append(audioChunks, Head(dataEvents))
                      ELSE audioChunks
  /\ UNCHANGED <<startPc, isRecording, chunkTimer, timerLeft, chunkDuration,
                 targetLanguage, mediaRecorder, audioStream, audioContext, recorded,
                 clock, pccWait, jobs, chunkCounter, stopPc, stopTail, status,
                 emitted, captured, enqAtStop, pendingAtStop, boundaries, boundaryAfterStop, errors>>
  /\ UNCHANGED deviceLost
  /\ UNCHANGED carVars
  /\ UNCHANGED capVars
  /\ UNCHANGED fadeVars
  /\ UNCHANGED sessVars
  /\ UNCHANGED pauseVars


\* mediaRecorder.onerror: the recording device is lost.  The recorder becomes
\* inactive and hands over what it had gathered; the handler calls onError,
\* on which the component shows status 'error'.
RecorderError ==
  /\ startPc = "started"
  /\ mediaRecorder = "recording"
  /\ ~deviceLost
  /\ deviceLost' = TRUE
  /\ errors' = errors + 1
  /\ status' = "error"
  /\ mediaRecorder' = "inactive"
  /\ dataEvents' = Append(dataEvents, recorded)
  /\ recorded' = <<>>
  /\ UNCHANGED <<startPc, isRecording, chunkTimer, timerLeft, chunkDuration,
                 targetLanguage, audioStream, audioContext, audioChunks, clock,
                 pccWait, jobs, chunkCounter, stopPc, stopTail, emitted, captured,
                 enqAtStop, pendingAtStop, boundaries, boundaryAfterStop>>
  /\ UNCHANGED carVars
  /\ UNCHANGED capVars
  /\ UNCHANGED fadeVars
  /\ UNCHANGED sessVars
  /\ UNCHANGED pauseVars

\* ---------------------------------------------------------- chunk timer
TimerDueBlocking ==
  /\ chunkTimer
  /\ timerLeft = 0
  /\ \A i \in DOMAIN jobs : jobs[i].pc \notin {"analyzing", "transcribing", "translating"}

\* the timeout set by scheduleNextChunk has elapsed
TimerDue ==
  /\ chunkTimer
  /\ timerLeft = 0

\* The timer callback: processCurrentChunk() up to its first await (the
\* recorder is stopped, which queues the dataavailable event), then the next
\* timeout is scheduled if isRecording.
TimerFired ==
  /\ TimerDue
  /\ boundaries' = boundaries + 1
  /\ boundaryAfterStop' = (boundaryAfterStop \/ stopPc # "none")
  /\ IF mediaRecorder = "recording"
       THEN /\ mediaRecorder' = "inactive"
            /\ dataEvents' = Append(dataEvents, recorded)
            /\ recorded' = <<>>
            /\ pccWait' = "timer"
       ELSE UNCHANGED <<mediaRecorder, dataEvents, recorded, pccWait>>
  /\ chunkTimer' = isRecording
  /\ timerLeft' = IF isRecording THEN chunkDuration ELSE timerLeft
  /\ UNCHANGED <<startPc, isRecording, chunkDuration, targetLanguage, audioStream,
                 audioContext, audioChunks, clock, jobs, chunkCounter, stopPc,
                 stopTail, status, emitted, captured, enqAtStop, pendingAtStop, errors>>
  /\ UNCHANGED deviceLost
  /\ UNCHANGED carVars
  /\ UNCHANGED capVars
  /\ UNCHANGED fadeVars
  /\ UNCHANGED sessVars
  /\ UNCHANGED pauseVars

NewJob(blob) ==
  [id |-> Len(jobs) + 1, audio |-> blob, pc |-> "queued", promise |-> "pending",
   sound |-> 0, decoded |-> FALSE, calls |-> 0, xcalls |-> 0, result |-> "none"]

\* processCurrentChunk restarts the recorder in the same synchronous run in
\* which it chains the chunk on processingQueue
RestartOnEnqueue ==
  mediaRecorder # "null" /\ isRecording /\ mediaRecorder # "recording"

\* processCurrentChunk() after its 100 ms wait: the Blob is built from
\* audioChunks, an empty Blob is skipped, otherwise the chunk is chained on
\* processingQueue and the recorder is restarted.  When stop() is the caller,
\* stop() goes on to await processingQueue.
PccResume ==
  /\ pccWait # "none"
  /\ dataEvents = <<>>
  /\ LET blob == Flatten(audioChunks) IN
       /\ audioChunks' = <<>>
       /\ IF Len(blob) = 0
            THEN /\ mediaRecorder' = IF mediaRecorder # "null" /\ isRecording
                                       THEN "recording" ELSE mediaRecorder
                 /\ jobs' = jobs
            ELSE /\ jobs' = Append(jobs, NewJob(blob))
                 /\ mediaRecorder' = IF RestartOnEnqueue
                                       THEN "recording" ELSE mediaRecorder
  /\ pccWait' = "none"
  /\ IF pccWait = "stop"
       THEN /\ stopPc' = "drain"
            /\ stopTail' = Len(jobs')
       ELSE UNCHANGED <<stopPc, stopTail>>
  /\ UNCHANGED <<startPc, isRecording, chunkTimer, timerLeft, chunkDuration,
                 targetLanguage, audioStream, audioContext, recorded, dataEvents, clock,
                 chunkCounter, status, emitted, captured, enqAtStop, pendingAtStop, boundaries,
                 boundaryAfterStop, errors>>
  /\ UNCHANGED deviceLost
  /\ UNCHANGED carVars
  /\ UNCHANGED capVars
  /\ UNCHANGED fadeVars
  /\ UNCHANGED sessVars
  /\ UNCHANGED pauseVars

\* -------------------------------------------------- processingQueue chain
CanStartUnchained(i) == TRUE

\* processingQueue = processingQueue.then(callback): the callback of chunk i
\* runs once the promise of chunk i-1 is fulfilled
CanStart(i) == IF i = 1 THEN TRUE ELSE jobs[i - 1].promise = "fulfilled"

SettleOnFailureRethrow == "rejected"

\* transcribeChunk's catch block swallows the error: the promise is fulfilled
SettleOnFailure == "fulfilled"

StatusAfterFailureError == "error"

\* the catch block of transcribeChunk reports 'recording' and does not call onError
StatusAfterFailure == "recording"

AnalyzeAudioVolumeZeroOnError(ctx, decodable, rms) ==
  IF ctx = "null" THEN ErrorVolume ELSE IF decodable THEN rms ELSE 0

\* analyzeAudioVolume: the RMS of the decoded audio; 1 without an
\* AudioContext or when decoding throws
AnalyzeAudioVolume(ctx, decodable, rms) ==
  IF ctx = "null" THEN ErrorVolume
  ELSE IF decodable THEN rms ELSE ErrorVolume

IsSilentInclusive(volume) == volume <= silenceThreshold

\* volume < this.silenceThreshold
IsSilent(volume) == volume < silenceThreshold

targetOnIgnoringSource == targetLanguage # ""

\* this.config.targetLanguage && this.config.targetLanguage !== this.config.language
targetOn == targetLanguage # "" /\ targetLanguage # language

EmitTwice(i, translated) ==
  Append(Append(emitted, [id |-> jobs[i].id, translated |-> translated]),
         [id |-> jobs[i].id, translated |-> translated])

\* this.config.onChunkTranscribed(chunk)
Emit(i, translated) == Append(emitted, [id |-> jobs[i].id, translated |-> translated])

\* transcribeChunk begins: ++chunkCounter, onStatusChange('processing'), and
\* the await of analyzeAudioVolume
JobStart(i) ==
  /\ jobs[i].pc = "queued"
  /\ CanStart(i)
  /\ jobs' = [jobs EXCEPT ![i].pc = "analyzing"]
  /\ chunkCounter' = chunkCounter + 1
  /\ status' = "processing"
  /\ UNCHANGED <<startPc, isRecording, chunkTimer, timerLeft, chunkDuration,
                 targetLanguage, mediaRecorder, audioStream, audioContext, recorded,
                 dataEvents, audioChunks, clock, pccWait, stopPc, stopTail, emitted,
                 captured, enqAtStop, pendingAtStop, boundaries, boundaryAfterStop, errors>>
  /\ UNCHANGED deviceLost
  /\ UNCHANGED carVars
  /\ UNCHANGED capVars
  /\ UNCHANGED fadeVars
  /\ UNCHANGED sessVars
  /\ UNCHANGED pauseVars

\* analyzeAudioVolume returned: a silent chunk ends here, any other is posted
\* to /api/transcribe
AnalyzeDone(i, decodable, rms) ==
  /\ jobs[i].pc = "analyzing"
  /\ LET volume == AnalyzeAudioVolume(audioContext, decodable, rms) IN
       IF IsSilent(volume)
         THEN /\ jobs' = [jobs EXCEPT ![i].pc = "done", ![i].promise = "fulfilled",
                                      ![i].sound = rms,
                                      ![i].decoded = (decodable /\ audioContext # "null")]
              /\ status' = "recording"
         ELSE /\ jobs' = [jobs EXCEPT ![i].pc = "transcribing", ![i].calls = @ + 1,
                                      ![i].sound = rms,
                                      ![i].decoded = (decodable /\ audioContext # "null")]
              /\ status' = status
  /\ UNCHANGED <<startPc, isRecording, chunkTimer, timerLeft, chunkDuration,
                 targetLanguage, mediaRecorder, audioStream, audioContext, recorded,
                 dataEvents, audioChunks, clock, pccWait, chunkCounter, stopPc,
                 stopTail, emitted, captured, enqAtStop, pendingAtStop, boundaries,
                 boundaryAfterStop, errors>>
  /\ UNCHANGED deviceLost
  /\ UNCHANGED carVars
  /\ UNCHANGED capVars
  /\ UNCHANGED fadeVars
  /\ UNCHANGED sessVars
  /\ UNCHANGED pauseVars

\* the POST /api/transcribe settled: "fail" (axios rejects), "empty" (no or
\* whitespace-only transcription) or "text"
TranscribeReturn(i, outcome) ==
  /\ jobs[i].pc = "transcribing"
  /\ CASE outcome = "fail" ->
            /\ jobs' = [jobs EXCEPT ![i].pc = "failed", ![i].promise = SettleOnFailure,
                                      ![i].result = "fail"]
            /\ status' = StatusAfterFailure
            /\ emitted' = emitted
       [] outcome = "empty" ->
            /\ jobs' = [jobs EXCEPT ![i].pc = "done", ![i].promise = "fulfilled",
                                      ![i].result = "empty"]
            /\ status' = "recording"
            /\ emitted' = emitted
       [] outcome = "text" /\ targetOn ->
            /\ jobs' = [jobs EXCEPT ![i].pc = "translating", ![i].xcalls = @ + 1,
                                      ![i].result = "text"]
            /\ status' = status
            /\ emitted' = emitted
       [] outcome = "text" /\ ~targetOn ->
            /\ jobs' = [jobs EXCEPT ![i].pc = "done", ![i].promise = "fulfilled",
                                      ![i].result = "text"]
            /\ status' = "recording"
            /\ emitted' = Emit(i, FALSE)
  /\ UNCHANGED <<startPc, isRecording, chunkTimer, timerLeft, chunkDuration,
                 targetLanguage, mediaRecorder, audioStream, audioContext, recorded,
                 dataEvents, audioChunks, clock, pccWait, chunkCounter, stopPc,
                 stopTail, captured, enqAtStop, pendingAtStop, boundaries, boundaryAfterStop,
                 errors>>
  /\ UNCHANGED deviceLost
  /\ UNCHANGED carVars
  /\ UNCHANGED capVars
  /\ UNCHANGED fadeVars
  /\ UNCHANGED sessVars
  /\ UNCHANGED pauseVars

\* translateText returned: the translation, or null when the POST failed or
\* carried no translation; the segment is emitted either way
TranslateReturn(i, translated) ==
  /\ jobs[i].pc = "translating"
  /\ jobs' = [jobs EXCEPT ![i].pc = "done", ![i].promise = "fulfilled"]
  /\ emitted' = Emit(i, translated)
  /\ status' = "recording"
  /\ UNCHANGED <<startPc, isRecording, chunkTimer, timerLeft, chunkDuration,
                 targetLanguage, mediaRecorder, audioStream, audioContext, recorded,
                 dataEvents, audioChunks, clock, pccWait, chunkCounter, stopPc,
                 stopTail, captured, enqAtStop, pendingAtStop, boundaries, boundaryAfterStop,
                 errors>>
  /\ UNCHANGED deviceLost
  /\ UNCHANGED carVars
  /\ UNCHANGED capVars
  /\ UNCHANGED fadeVars
  /\ UNCHANGED sessVars
  /\ UNCHANGED pauseVars

\* ------------------------------------------------------------------ stop()
\* stop() up to its first await: isRecording cleared, the timeout cleared,
\* processCurrentChunk() called when audioChunks is not empty
StopCall ==
  /\ startPc = "started"
  /\ stopPc = "none"
  /\ isRecording' = FALSE
  /\ chunkTimer' = FALSE
  /\ enqAtStop' = Len(jobs)
  /\ pendingAtStop' = IF mediaRecorder = "recording" THEN recorded ELSE <<>>
  /\ IF Len(audioChunks) > 0 /\ mediaRecorder = "recording"
       THEN /\ mediaRecorder' = "inactive"
            /\ dataEvents' = Append(dataEvents, recorded)
            /\ recorded' = <<>>
            /\ pccWait' = "stop"
            /\ stopPc' = "flush"
            /\ stopTail' = stopTail
       ELSE /\ stopPc' = "drain"
            /\ stopTail' = Len(jobs)
            /\ UNCHANGED <<mediaRecorder, dataEvents, recorded, pccWait>>
  /\ UNCHANGED <<startPc, timerLeft, chunkDuration, targetLanguage, audioStream,
                 audioContext, audioChunks, clock, jobs, chunkCounter, status,
                 emitted, captured, boundaries, boundaryAfterStop, errors>>
  /\ UNCHANGED deviceLost
  /\ UNCHANGED carVars
  /\ UNCHANGED capVars
  /\ UNCHANGED fadeVars
  /\ UNCHANGED sessVars
  /\ UNCHANGED pauseVars

QueueDrainedNoAwait(tail) == TRUE

\* await this.processingQueue: the promise stop() read is fulfilled
QueueDrained(tail) == IF tail = 0 THEN TRUE ELSE jobs[tail].promise = "fulfilled"

\* stop() after the await of processingQueue: the recorder and the stream
\* are stopped, audioContext.close() is awaited
StopDrained ==
  /\ stopPc = "drain"
  /\ QueueDrained(stopTail)
  /\ IF mediaRecorder \notin {"null", "inactive"}
       THEN /\ mediaRecorder' = "inactive"
            /\ dataEvents' = Append(dataEvents, recorded)
            /\ recorded' = <<>>
       ELSE UNCHANGED <<mediaRecorder, dataEvents, recorded>>
  /\ audioStream' = FALSE
  /\ stopPc' = "closing"
  /\ UNCHANGED <<startPc, isRecording, chunkTimer, timerLeft, chunkDuration,
                 targetLanguage, audioContext, audioChunks, clock, pccWait, jobs,
                 chunkCounter, stopTail, status, emitted, captured, enqAtStop, pendingAtStop,
                 boundaries, boundaryAfterStop, errors>>
  /\ UNCHANGED deviceLost
  /\ UNCHANGED carVars
  /\ UNCHANGED capVars
  /\ UNCHANGED fadeVars
  /\ UNCHANGED sessVars
  /\ UNCHANGED pauseVars

\* stop() after audioContext.close(): fields reset, onStatusChange('idle')
StopFinish ==
  /\ stopPc = "closing"
  /\ audioContext' = "null"
  /\ mediaRecorder' = "null"
  /\ audioChunks' = <<>>
  /\ status' = "idle"
  /\ stopPc' = "done"
  /\ UNCHANGED <<startPc, isRecording, chunkTimer, timerLeft, chunkDuration,
                 targetLanguage, audioStream, recorded, dataEvents, clock, pccWait, jobs,
                 chunkCounter, stopTail, emitted, captured, enqAtStop, pendingAtStop, boundaries,
                 boundaryAfterStop, errors>>
  /\ UNCHANGED deviceLost
  /\ UNCHANGED carVars
  /\ UNCHANGED capVars
  /\ UNCHANGED fadeVars
  /\ UNCHANGED sessVars
  /\ UNCHANGED pauseVars

\* ===================================================== service properties
EmittedIds == {emitted[k].id : k \in DOMAIN emitted}

HandedTicks == UNION {Range(jobs[i].audio) : i \in DOMAIN jobs}

InFlight == {i \in DOMAIN jobs : jobs[i].pc \in {"transcribing", "translating"}}

\* C1: onChunkTranscribed calls occur in the order in which the chunks were
\* chained on processingQueue: a later chunk's segment is never emitted before
\* an earlier chunk's segment, and no chunk is emitted twice.
C1_EmittedInChunkOrder ==
  \A a, b \in DOMAIN emitted : a < b => emitted[a].id < emitted[b].id

\* three segments emitted, the last of them translated
C1_Witness ==
  /\ Len(emitted) = 3
  /\ emitted[3].translated

\* C2: at most one POST (transcribe or translate) of the instance is in
\* flight, and transcribeChunk of chunk n+1 has not begun before that of
\* chunk n completed or failed.
C2_SingleFlight ==
  /\ Cardinality(InFlight) <= 1
  /\ \A i \in DOMAIN jobs :
       (i > 1 /\ jobs[i].pc # "queued") => jobs[i - 1].pc \in {"done", "failed"}

\* a translate call in flight while two later chunks wait their turn
C2_Witness ==
  /\ Len(jobs) = 3
  /\ jobs[1].pc = "translating"
  /\ jobs[2].pc = "queued"
  /\ jobs[3].pc = "queued"

\* C3: a failed transcribe call leaves isRecording and the chunk timer as they
\* were and reports status 'recording'; the chunk chained after a failed one
\* can start; every chunk whose transcription came back with text has its
\* segment emitted, in chunk order.
C3_FailureIsolation ==
  /\ [](/\ \A i \in DOMAIN jobs :
            (jobs[i].pc = "failed" /\ i < Len(jobs) /\ jobs[i + 1].pc = "queued")
              => ENABLED JobStart(i + 1)
        /\ \A i \in DOMAIN jobs :
            (jobs[i].pc = "done" /\ jobs[i].result = "text") => jobs[i].id \in EmittedIds
        /\ \A a, b \in DOMAIN emitted : a < b => emitted[a].id < emitted[b].id)
  /\ [][\A i \in DOMAIN jobs :
          (jobs[i].pc = "transcribing" /\ jobs'[i].pc = "failed")
            => /\ isRecording' = isRecording
               /\ chunkTimer' = chunkTimer
               /\ timerLeft' = timerLeft
               /\ status' = "recording"
               /\ errors' = errors]_vars

\* chunks [A, B, C], B failed, the segments of A and C emitted, still recording
C3_Witness ==
  /\ Len(jobs) = 3
  /\ jobs[2].pc = "failed"
  /\ Len(emitted) = 2
  /\ emitted[1].id = 1
  /\ emitted[2].id = 3
  /\ isRecording
  /\ chunkTimer
  /\ status = "recording"

\* C4: once stop() has released the microphone, the audio the recorder had
\* gathered since the last chunk boundary when stop() was called is part of
\* a chunk handed to the pipeline.
C4_StopFlushesRemainingAudio ==
  (stopPc \in {"closing", "done"}) => Range(pendingAtStop) \subseteq HandedTicks

\* C8: a chunk analysed with an RMS below silenceThreshold causes no
\* transcribe call and no segment; a chunk at or above the threshold, and a
\* chunk that could not be decoded or analysed, causes exactly one.
C8_SilenceSuppression ==
  \A i \in DOMAIN jobs :
    LET j == jobs[i] IN
      /\ j.calls <= 1
      /\ j.pc \notin {"queued", "analyzing"} =>
           /\ (j.decoded /\ j.sound < silenceThreshold)
                => (j.calls = 0 /\ j.id \notin EmittedIds /\ j.pc = "done")
           /\ (j.decoded /\ j.sound >= silenceThreshold) => j.calls = 1
           /\ ~j.decoded => j.calls = 1

\* a silent chunk skipped, a chunk exactly at the threshold and an
\* undecodable chunk both sent to transcribe
C8_Witness ==
  /\ Len(jobs) = 3
  /\ jobs[1].decoded /\ jobs[1].sound < silenceThreshold /\ jobs[1].pc = "done"
  /\ jobs[2].decoded /\ jobs[2].sound = silenceThreshold /\ jobs[2].calls = 1
  /\ ~jobs[3].decoded /\ jobs[3].sound < silenceThreshold /\ jobs[3].calls = 1

C10_CaptureNeverWaits ==
  /\ (chunkTimer /\ timerLeft = 0) => ENABLED TimerFired
  /\ (startPc = "started" /\ stopPc = "none")
       => /\ isRecording
          /\ chunkTimer
          /\ (pccWait = "none" /\ ~deviceLost) => mediaRecorder = "recording"

\* the timer fired, and scheduled the next boundary, while the first chunk's
\* transcribe call was in flight and a second chunk was waiting its turn
C10_Witness ==
  /\ Len(jobs) = 2
  /\ jobs[1].pc = "transcribing"
  /\ pccWait = "timer"
  /\ chunkTimer
  /\ timerLeft = chunkDuration

\* C11: there is no state in which the session is recording, the MediaRecorder
\* is inactive and processCurrentChunk is waiting before it restarts it.
C11_NoGapAtBoundary ==
  ~(isRecording /\ ~deviceLost /\ mediaRecorder = "inactive" /\ pccWait = "timer")

\* C15 as stated: a failed transcribe call is notified, by an onError call or
\* by an 'error' status.
C15_FailureNotified ==
  [][\A i \in DOMAIN jobs :
       (jobs[i].pc = "transcribing" /\ jobs'[i].pc = "failed")
         => (errors' > errors \/ status' = "error")]_vars

\* C15, amended: a failed transcribe call is notified neither by onError nor by
\* an 'error' status: the status reported is 'recording', as after a silent or
\* a successful chunk; the call is not made again for that chunk, and the
\* chunk chained after it can start.
C15_FailureSilentNoRetry ==
  /\ [](\A i \in DOMAIN jobs :
          /\ jobs[i].calls <= 1
          /\ jobs[i].pc = "failed"
               => /\ jobs[i].calls = 1
                  /\ jobs[i].promise = "fulfilled"
                  /\ (i < Len(jobs) /\ jobs[i + 1].pc = "queued")
                       => ENABLED JobStart(i + 1))
  /\ [][\A i \in DOMAIN jobs :
          /\ (jobs[i].pc = "transcribing" /\ jobs'[i].pc = "failed")
               => /\ errors' = errors
                  /\ status' = "recording"
                  /\ emitted' = emitted
          /\ (jobs[i].pc = "failed") => (jobs'[i] = jobs[i])]_vars

\* the first chunk failed with no error reported, and the second chunk has
\* been transcribed and emitted after it
C15_Witness ==
  /\ Len(jobs) >= 2
  /\ jobs[1].pc = "failed"
  /\ jobs[1].calls = 1
  /\ errors = 0
  /\ jobs[2].pc = "done"
  /\ jobs[2].result = "text"
  /\ emitted # <<>>
  /\ emitted[1].id = 2

\* C16: a chunk has one translate call exactly when its transcription came
\* back with text and a target language other than the source language is
\* configured, and never more than one; a chunk with text is emitted once it
\* is done, with a translation only if a translate call returned one; the
\* chunk chained after it can start.
C16_TranslateWhenConfigured ==
  /\ \A i \in DOMAIN jobs :
       /\ jobs[i].xcalls <= 1
       /\ (jobs[i].xcalls = 1)
            <=> (jobs[i].result = "text" /\ targetLanguage # "" /\ targetLanguage # language)
       /\ (jobs[i].pc = "done" /\ jobs[i].result = "text")
            => /\ jobs[i].id \in EmittedIds
               /\ jobs[i].promise = "fulfilled"
               /\ (i < Len(jobs) /\ jobs[i + 1].pc = "queued") => ENABLED JobStart(i + 1)
  /\ \A k \in DOMAIN emitted :
       emitted[k].translated => jobs[emitted[k].id].xcalls = 1

\* the translate call of the first chunk failed, its segment was emitted
\* without a translation, and the second chunk was translated and emitted
C16_Witness ==
  /\ Len(jobs) >= 2
  /\ jobs[1].xcalls = 1
  /\ Len(emitted) = 2
  /\ emitted[1] = [id |-> 1, translated |-> FALSE]
  /\ emitted[2] = [id |-> 2, translated |-> TRUE]

\* C19: when getUserMedia rejects, start() rejects, onError has been called
\* once, the last status is 'error', isRecording is false, no timeout is
\* pending, there is no recorder and no stream, and no chunk is ever produced.
C19_FailedStartNeverBegins ==
  startPc = "failed"
    => /\ errors = 1
       /\ status = "error"
       /\ ~isRecording
       /\ ~chunkTimer
       /\ mediaRecorder = "null"
       /\ ~audioStream
       /\ jobs = <<>>
       /\ emitted = <<>>
       /\ boundaries = 0
       /\ ~ENABLED Tick
       /\ ~ENABLED TimerFired

C19_Witness == startPc = "failed" /\ status = "error" /\ errors = 1

\* C20: once the recorder has reported an error, the status is 'error' until
\* the session is stopped.
C20_ErrorStatusSticks ==
  (deviceLost /\ stopPc = "none") => status = "error"

\* C17: under the assumption that every call returns, every chunk chained on
\* processingQueue is eventually done or failed, whatever happened to the
\* chunks before it; the callback of a chunk runs once and a chunk that is
\* done or failed is never touched again; a call of stop() eventually
\* resolves.
C17_PipelineLiveness ==
  /\ \A i \in 1..MaxLiveClock :
       (Len(jobs) >= i) ~> (Len(jobs) >= i /\ jobs[i].pc \in {"done", "failed"})
  /\ (stopPc # "none") ~> (stopPc = "done")
  /\ [](chunkCounter = Cardinality({i \in DOMAIN jobs : jobs[i].pc # "queued"}))
  /\ [][\A i \in DOMAIN jobs :
          jobs[i].pc \in {"done", "failed"} => jobs'[i] = jobs[i]]_vars

\* stop() has resolved after a session in which the first chunk failed and
\* every chunk, those after it included, has been processed
C17_Witness ==
  /\ stopPc = "done"
  /\ Len(jobs) >= 2
  /\ jobs[1].pc = "failed"
  /\ \A i \in DOMAIN jobs : jobs[i].pc \in {"done", "failed"}
  /\ chunkCounter = Len(jobs)

\* the number of onChunkTranscribed calls made for chunk id
Segments(id) == Cardinality({k \in DOMAIN emitted : emitted[k].id = id})

\* C24: a chunk has one segment once it is done with a transcription that has
\* text, and none before that; a chunk that was silent, whose transcription
\* was empty or whose transcribe call failed has none; no chunk has more than
\* one.
C24_SegmentsOneToOne ==
  \A i \in DOMAIN jobs :
    /\ Segments(jobs[i].id) <= 1
    /\ (Segments(jobs[i].id) = 1) <=> (jobs[i].pc = "done" /\ jobs[i].result = "text")
    /\ (jobs[i].pc = "done" /\ jobs[i].calls = 0) => Segments(jobs[i].id) = 0
    /\ jobs[i].result \in {"empty", "fail"} => Segments(jobs[i].id) = 0

\* three chunks are finished: one failed, one had no text (silent or empty
\* transcription), one had text, and there is the one segment
C24_Witness ==
  /\ Len(jobs) = 3
  /\ \E a, b, c \in DOMAIN jobs :
       /\ jobs[a].pc = "failed"
       /\ jobs[b].pc = "done" /\ jobs[b].result # "text"
       /\ jobs[c].pc = "done" /\ jobs[c].result = "text"
       /\ emitted = <<[id |-> jobs[c].id, translated |-> FALSE]>>

\* C25: once stop() has resolved, no segment is emitted, no status is
\* reported and no chunk makes progress.
C25_QuiescentAfterStop ==
  [][stopPc = "done" => (emitted' = emitted /\ status' = status /\ jobs' = jobs)]_vars

\* C28: after a failed start() the service holds no live stream.
C28_NoStreamAfterFailedStart ==
  startPc \in {"failed", "threw"} => ~audioStream

\* ================================================ ContinuousAudioRecorder
NoSpeaker == [id |-> 0, label |-> 0]

CarIdle ==
  /\ speakers = <<>>
  /\ currentSpeaker = NoSpeaker
  /\ segments = <<>>
  /\ crIsRecording = FALSE
  /\ crIsPaused = FALSE
  /\ mediaRecorderRef = "null"
  /\ audioChunksRef = <<>>
  /\ streamRef = FALSE
  /\ chunkTimerRef = FALSE
  /\ timerSpeaker = NoSpeaker
  /\ carRecorded = <<>>
  /\ carDataEvents = <<>>
  /\ carClock = 0
  /\ requests = {}
  /\ nextChunk = 1
  /\ carCaptured = {}
  /\ carBoundaries = 0
  /\ submitted = {}
  /\ resubmitted = FALSE
  /\ totalDuration = 0
  /\ timerDuration = 0
  /\ durationTimerRef = FALSE
  /\ durationTicks = 0
  /\ prePause = {}
  /\ lostAfterResume = FALSE

\* translationReducer
ADD_SPEAKER(payload) ==
  /\ speakers' = Append(speakers, payload)
  /\ currentSpeaker' = IF currentSpeaker # NoSpeaker THEN currentSpeaker ELSE payload

SET_CURRENT_SPEAKER(payload) == currentSpeaker' = payload

ADD_TRANSCRIPT_SEGMENT(payload) == segments' = Append(segments, payload)

Relabel(speaker, payload) ==
  IF speaker.id = payload.speakerId
    THEN [speaker EXCEPT !.label = payload.newLabel]
    ELSE speaker

RENAME_SPEAKER_RegistryOnly(payload) ==
  /\ speakers' = [k \in DOMAIN speakers |-> Relabel(speakers[k], payload)]
  /\ currentSpeaker' = Relabel(currentSpeaker, payload)
  /\ segments' = segments

RENAME_SPEAKER(payload) ==
  /\ speakers' = [k \in DOMAIN speakers |-> Relabel(speakers[k], payload)]
  /\ currentSpeaker' = Relabel(currentSpeaker, payload)
  /\ segments' = [k \in DOMAIN segments |->
                    [segments[k] EXCEPT !.speaker = Relabel(@, payload)]]

\* the labels a speaker can be renamed to: none is the label of a new speaker
NewLabels == {MaxSpeakers + 1}

\* SpeakerManager.handleSaveEdit(speakerId), the edit box holding newLabel
HandleSaveEdit(speakerId, newLabel) ==
  /\ \E k \in DOMAIN speakers : speakers[k].id = speakerId
  /\ RENAME_SPEAKER([speakerId |-> speakerId, newLabel |-> newLabel])
  /\ UNCHANGED <<crIsRecording, crIsPaused, mediaRecorderRef,
                 audioChunksRef, streamRef, chunkTimerRef, timerSpeaker,
                 carRecorded, carDataEvents, carClock, requests, nextChunk,
                 carCaptured, carBoundaries, submitted, resubmitted>>
  /\ UNCHANGED ltsVars
  /\ UNCHANGED capVars
  /\ UNCHANGED fadeVars
  /\ UNCHANGED sessVars
  /\ UNCHANGED pauseVars

\* SpeakerManager.handleAddSpeaker
HandleAddSpeaker ==
  /\ Len(speakers) < MaxSpeakers
  /\ ADD_SPEAKER([id |-> Len(speakers) + 1, label |-> Len(speakers) + 1])
  /\ UNCHANGED <<segments, crIsRecording, crIsPaused, mediaRecorderRef,
                 audioChunksRef, streamRef, chunkTimerRef, timerSpeaker,
                 carRecorded, carDataEvents, carClock, requests, nextChunk,
                 carCaptured, carBoundaries, submitted, resubmitted>>
  /\ UNCHANGED ltsVars
  /\ UNCHANGED capVars
  /\ UNCHANGED fadeVars
  /\ UNCHANGED sessVars
  /\ UNCHANGED pauseVars

\* SpeakerManager.handleSelectSpeaker
HandleSelectSpeaker(k) ==
  /\ k \in DOMAIN speakers
  /\ speakers[k] # currentSpeaker
  /\ SET_CURRENT_SPEAKER(speakers[k])
  /\ UNCHANGED <<speakers, segments, crIsRecording, crIsPaused, mediaRecorderRef,
                 audioChunksRef, streamRef, chunkTimerRef, timerSpeaker,
                 carRecorded, carDataEvents, carClock, requests, nextChunk,
                 carCaptured, carBoundaries, submitted, resubmitted>>
  /\ UNCHANGED ltsVars
  /\ UNCHANGED capVars
  /\ UNCHANGED fadeVars
  /\ UNCHANGED sessVars
  /\ UNCHANGED pauseVars

\* processAudioChunk(audioBlob) up to its POST /api/transcribe, called from a
\* closure whose continuousRecording.currentSpeaker is `speaker`
Submit(blob, speaker) ==
  IF Len(blob) > 0 /\ speaker # NoSpeaker
    THEN /\ requests' = requests \cup
                {[chunk |-> nextChunk, audio |-> blob, speaker |-> speaker,
                  finalSpeaker |-> currentSpeaker]}
         /\ nextChunk' = nextChunk + 1
         /\ submitted' = submitted \cup Range(blob)
         /\ resubmitted' = (resubmitted \/ Range(blob) \cap submitted # {})
    ELSE UNCHANGED <<requests, nextChunk, submitted, resubmitted>>

\* bookkeeping for the pause: the first chunk submitted after a resume is
\* compared with what the recorder held at the pause
FirstAfterResume(blob) ==
  IF prePause # {} /\ Len(blob) > 0
    THEN /\ lostAfterResume' = (lostAfterResume \/ ~(prePause \subseteq Range(blob)))
         /\ prePause' = {}
    ELSE UNCHANGED pauseVars

\* mediaRecorder.stop(); new Blob(audioChunksRef.current); processAudioChunk;
\* audioChunksRef.current = []; mediaRecorder.start().  closureSpeaker is the
\* currentSpeaker of the render that created the calling handler.
FlushAndRestart(closureSpeaker) ==
  /\ carDataEvents' = Append(carDataEvents, carRecorded)
  /\ Submit(Flatten(audioChunksRef), closureSpeaker)
  /\ FirstAfterResume(Flatten(audioChunksRef))
  /\ audioChunksRef' = <<>>
  /\ carRecorded' = <<>>
  /\ mediaRecorderRef' = "recording"

\* startRecording, getUserMedia resolved
StartRecording ==
  /\ ~crIsRecording
  /\ carDataEvents = <<>>
  /\ Len(speakers) # 0
  /\ currentSpeaker # NoSpeaker
  /\ streamRef' = TRUE
  /\ mediaRecorderRef' = "recording"
  /\ carRecorded' = <<>>
  /\ audioChunksRef' = <<>>
  /\ crIsRecording' = TRUE
  /\ crIsPaused' = FALSE
  /\ chunkTimerRef' = TRUE
  /\ timerSpeaker' = currentSpeaker
  /\ UNCHANGED <<speakers, currentSpeaker, segments, carDataEvents, carClock,
                 requests, nextChunk, carCaptured, carBoundaries, submitted,
                 resubmitted>>
  /\ UNCHANGED ltsVars
  /\ UNCHANGED capVars
  /\ UNCHANGED fadeVars
  /\ durationTimerRef' = TRUE
  /\ timerDuration' = totalDuration
  /\ durationTicks' = 0
  /\ UNCHANGED totalDuration
  /\ UNCHANGED pauseVars

\* one second of microphone time is gathered by the recorder
CarTick ==
  /\ mediaRecorderRef = "recording"
  /\ carDataEvents = <<>>
  /\ carClock < MaxCarClock
  /\ carClock' = carClock + 1
  /\ carRecorded' = Append(carRecorded, carClock + 1)
  /\ carCaptured' = carCaptured \cup {carClock + 1}
  /\ UNCHANGED <<speakers, currentSpeaker, segments, crIsRecording, crIsPaused,
                 mediaRecorderRef, audioChunksRef, streamRef, chunkTimerRef,
                 timerSpeaker, carDataEvents, requests, nextChunk, carBoundaries,
                 submitted, resubmitted>>
  /\ UNCHANGED ltsVars
  /\ UNCHANGED capVars
  /\ UNCHANGED fadeVars
  /\ UNCHANGED sessVars
  /\ UNCHANGED pauseVars

\* the MediaRecorder's queued dataavailable event reaches ondataavailable
CarDataAvailable ==
  /\ carDataEvents # <<>>
  /\ carDataEvents' = Tail(carDataEvents)
  /\ audioChunksRef' = IF Len(Head(carDataEvents)) > 0
                         THEN Append(audioChunksRef, Head(carDataEvents))
                         ELSE audioChunksRef
  /\ UNCHANGED <<speakers, currentSpeaker, segments, crIsRecording, crIsPaused,
                 mediaRecorderRef, streamRef, chunkTimerRef, timerSpeaker,
                 carRecorded, carClock, requests, nextChunk, carCaptured,
                 carBoundaries, submitted, resubmitted>>
  /\ UNCHANGED ltsVars
  /\ UNCHANGED capVars
  /\ UNCHANGED fadeVars
  /\ UNCHANGED sessVars
  /\ UNCHANGED pauseVars

\* the setInterval callback created by startRecording
ChunkTimerFired ==
  /\ chunkTimerRef
  /\ carDataEvents = <<>>
  /\ carBoundaries < MaxCarBoundaries
  /\ carBoundaries' = carBoundaries + 1
  /\ IF mediaRecorderRef = "recording"
       THEN FlushAndRestart(timerSpeaker)
       ELSE UNCHANGED <<carDataEvents, requests, nextChunk, submitted, resubmitted,
                        audioChunksRef, carRecorded, mediaRecorderRef, pauseVars>>
  /\ UNCHANGED <<speakers, currentSpeaker, segments, crIsRecording, crIsPaused,
                 streamRef, chunkTimerRef, timerSpeaker, carClock, carCaptured>>
  /\ UNCHANGED ltsVars
  /\ UNCHANGED capVars
  /\ UNCHANGED fadeVars
  /\ UNCHANGED sessVars

\* handleNewSpeaker: the chunk is flushed, then the speaker registered after
\* the current one is selected if there is one
HandleNewSpeaker ==
  /\ crIsRecording
  /\ carDataEvents = <<>>
  /\ carBoundaries < MaxCarBoundaries
  /\ carBoundaries' = carBoundaries + 1
  /\ IF mediaRecorderRef = "recording"
       THEN FlushAndRestart(currentSpeaker)
       ELSE UNCHANGED <<carDataEvents, requests, nextChunk, submitted, resubmitted,
                        audioChunksRef, carRecorded, mediaRecorderRef, pauseVars>>
  /\ LET currentIndex ==
           IF \E k \in DOMAIN speakers : speakers[k].id = currentSpeaker.id
             THEN CHOOSE k \in DOMAIN speakers : speakers[k].id = currentSpeaker.id
             ELSE 0
     IN IF currentIndex + 1 \in DOMAIN speakers
          THEN SET_CURRENT_SPEAKER(speakers[currentIndex + 1])
          ELSE UNCHANGED currentSpeaker
  /\ UNCHANGED <<speakers, segments, crIsRecording, crIsPaused, streamRef,
                 chunkTimerRef, timerSpeaker, carClock, carCaptured>>
  /\ UNCHANGED ltsVars
  /\ UNCHANGED capVars
  /\ UNCHANGED fadeVars
  /\ UNCHANGED sessVars

\* stopRecording: the recorder is stopped, what audioChunksRef holds is
\* submitted, cleanup(), STOP_CONTINUOUS_RECORDING
StopRecording ==
  /\ crIsRecording
  /\ carDataEvents = <<>>
  /\ IF mediaRecorderRef \notin {"null", "inactive"}
       THEN /\ mediaRecorderRef' = "inactive"
            /\ carDataEvents' = Append(carDataEvents, carRecorded)
            /\ carRecorded' = <<>>
            /\ Submit(Flatten(audioChunksRef), currentSpeaker)
            /\ IF mediaRecorderRef = "recording"
                 THEN FirstAfterResume(Flatten(audioChunksRef))
                 ELSE prePause' = {} /\ UNCHANGED lostAfterResume
       ELSE UNCHANGED <<mediaRecorderRef, carDataEvents, carRecorded, requests,
                        nextChunk, submitted, resubmitted, pauseVars>>
  /\ chunkTimerRef' = FALSE
  /\ streamRef' = FALSE
  /\ crIsRecording' = FALSE
  /\ crIsPaused' = FALSE
  /\ UNCHANGED <<speakers, currentSpeaker, segments, audioChunksRef, timerSpeaker,
                 carClock, carCaptured, carBoundaries>>
  /\ UNCHANGED ltsVars
  /\ UNCHANGED capVars
  /\ UNCHANGED fadeVars
  /\ durationTimerRef' = FALSE
  /\ UNCHANGED <<totalDuration, timerDuration, durationTicks>>

\* pauseRecording
PauseRecording ==
  /\ crIsRecording
  /\ ~crIsPaused
  /\ carDataEvents = <<>>
  /\ mediaRecorderRef = "recording"
  /\ mediaRecorderRef' = "paused"
  /\ crIsPaused' = TRUE
  /\ UNCHANGED <<speakers, currentSpeaker, segments, crIsRecording, audioChunksRef,
                 streamRef, chunkTimerRef, timerSpeaker, carRecorded, carDataEvents,
                 carClock, requests, nextChunk, carCaptured, carBoundaries,
                 submitted, resubmitted>>
  /\ UNCHANGED ltsVars
  /\ UNCHANGED capVars
  /\ UNCHANGED fadeVars
  /\ UNCHANGED sessVars
  /\ prePause' = prePause \cup Range(carRecorded)
  /\ UNCHANGED lostAfterResume

\* resumeRecording
ResumeRecording ==
  /\ crIsRecording
  /\ crIsPaused
  /\ mediaRecorderRef = "paused"
  /\ mediaRecorderRef' = "recording"
  /\ crIsPaused' = FALSE
  /\ UNCHANGED <<speakers, currentSpeaker, segments, crIsRecording, audioChunksRef,
                 streamRef, chunkTimerRef, timerSpeaker, carRecorded, carDataEvents,
                 carClock, requests, nextChunk, carCaptured, carBoundaries,
                 submitted, resubmitted>>
  /\ UNCHANGED ltsVars
  /\ UNCHANGED capVars
  /\ UNCHANGED fadeVars
  /\ UNCHANGED sessVars
  /\ UNCHANGED pauseVars

\* UPDATE_CONTINUOUS_DURATION
UPDATE_CONTINUOUS_DURATION(payload) ==
  totalDuration' = payload

\* the setInterval callback of the duration timer: its payload is computed
\* from the continuousRecording of the render in which startRecording ran
DurationTimerFired ==
  /\ durationTimerRef
  /\ durationTicks < MaxDurationTicks
  /\ timerDuration < MaxDurationTicks
  /\ durationTicks' = durationTicks + 1
  /\ UPDATE_CONTINUOUS_DURATION(timerDuration + 1)
  /\ UNCHANGED <<timerDuration, durationTimerRef>>
  /\ UNCHANGED carVars
  /\ UNCHANGED ltsVars
  /\ UNCHANGED capVars
  /\ UNCHANGED fadeVars
  /\ UNCHANGED pauseVars

\* CLEAR_CONTINUOUS_SESSION without the reset of currentSpeaker
CLEAR_CONTINUOUS_SESSION_KeepCurrent ==
  /\ crIsRecording' = FALSE
  /\ crIsPaused' = FALSE
  /\ UNCHANGED currentSpeaker
  /\ speakers' = <<>>
  /\ segments' = <<>>
  /\ totalDuration' = 0

\* CLEAR_CONTINUOUS_SESSION
CLEAR_CONTINUOUS_SESSION ==
  /\ crIsRecording' = FALSE
  /\ crIsPaused' = FALSE
  /\ currentSpeaker' = NoSpeaker
  /\ speakers' = <<>>
  /\ segments' = <<>>
  /\ totalDuration' = 0

\* ContinuousTranscriptView.handleClearSession (the confirmation is given).
\* Speaker ids are numbered from the length of the registry, so a speaker
\* added after the clearing takes an id of the cleared session again; the
\* program draws ids from the clock and never repeats one.
HandleClearSession ==
  /\ ~crIsRecording
  /\ CLEAR_CONTINUOUS_SESSION
  /\ UNCHANGED <<mediaRecorderRef, audioChunksRef, streamRef, chunkTimerRef,
                 timerSpeaker, carRecorded, carDataEvents, carClock, requests,
                 nextChunk, carCaptured, carBoundaries, submitted, resubmitted>>
  /\ UNCHANGED <<timerDuration, durationTimerRef, durationTicks>>
  /\ UNCHANGED ltsVars
  /\ UNCHANGED capVars
  /\ UNCHANGED fadeVars
  /\ UNCHANGED pauseVars

\* the component is unmounted, which runs cleanup(), and mounted again with
\* fresh refs; the continuousRecording state lives in the context and stays
Unmount ==
  /\ chunkTimerRef' = FALSE
  /\ durationTimerRef' = FALSE
  /\ streamRef' = FALSE
  /\ mediaRecorderRef' = "null"
  /\ audioChunksRef' = <<>>
  /\ carRecorded' = <<>>
  /\ carDataEvents' = <<>>
  /\ prePause' = {}
  /\ UNCHANGED <<speakers, currentSpeaker, segments, crIsRecording, crIsPaused,
                 timerSpeaker, carClock, requests, nextChunk, carCaptured,
                 carBoundaries, submitted, resubmitted>>
  /\ UNCHANGED <<totalDuration, timerDuration, durationTicks, lostAfterResume>>
  /\ UNCHANGED ltsVars
  /\ UNCHANGED capVars
  /\ UNCHANGED fadeVars

\* processAudioChunk after its POST settled: a segment is dispatched when the
\* transcription has text
TranscriptionResponse(r, outcome) ==
  /\ r \in requests
  /\ requests' = requests \ {r}
  /\ IF outcome = "text"
       THEN ADD_TRANSCRIPT_SEGMENT([chunk |-> r.chunk, audio |-> r.audio,
                                    speaker |-> r.speaker,
                                    finalSpeaker |-> r.finalSpeaker])
       ELSE UNCHANGED segments
  /\ UNCHANGED <<speakers, currentSpeaker, crIsRecording, crIsPaused,
                 mediaRecorderRef, audioChunksRef, streamRef, chunkTimerRef,
                 timerSpeaker, carRecorded, carDataEvents, carClock, nextChunk,
                 carCaptured, carBoundaries, submitted, resubmitted>>
  /\ UNCHANGED ltsVars
  /\ UNCHANGED capVars
  /\ UNCHANGED fadeVars
  /\ UNCHANGED sessVars
  /\ UNCHANGED pauseVars

\* ==================================================== recorder properties
\* C5: every transcript segment carries the speaker that was the current
\* speaker when its chunk was finalized (by the chunk timer, by a speaker
\* switch or by stop).
C5_SegmentSpeakerIsFinalizer ==
  \A k \in DOMAIN segments : segments[k].speaker.id = segments[k].finalSpeaker.id

\* C6: segments are appended to continuousRecording.segments in the order in
\* which their chunks were finalized.
C6_SegmentsInChunkOrder ==
  \A a, b \in DOMAIN segments : a < b => segments[a].chunk < segments[b].chunk

\* C7: once the session is stopped and the recorder's last dataavailable
\* event was delivered, every tick the recorder gathered has been submitted
\* for transcription, and no tick was submitted twice.
C7_AudioSubmittedExactlyOnce ==
  /\ (~crIsRecording /\ carDataEvents = <<>>) => carCaptured \subseteq submitted
  /\ ~resubmitted

\* the label the registry holds for a speaker id
RegistryLabel(id) ==
  speakers[CHOOSE k \in DOMAIN speakers : speakers[k].id = id].label

\* C12: every segment carries the label the registry holds for the id of its
\* speaker.
C12_NoStaleLabels ==
  \A k \in DOMAIN segments : segments[k].speaker.label = RegistryLabel(segments[k].speaker.id)

\* C13: in the state a rename step leaves, the registry entry with the id,
\* currentSpeaker if it has the id and every segment present whose speaker has
\* the id carry the new label; speakers and segments with another id, the
\* number and order of speakers and segments and the rest of every segment
\* are as before the step.
C13_RenameIsAtomic ==
  [][\A speakerId \in 1..MaxSpeakers, newLabel \in NewLabels :
       HandleSaveEdit(speakerId, newLabel)
         => /\ Len(speakers') = Len(speakers)
            /\ Len(segments') = Len(segments)
            /\ \A k \in DOMAIN speakers :
                 /\ speakers'[k].id = speakers[k].id
                 /\ speakers'[k].label =
                      IF speakers[k].id = speakerId THEN newLabel ELSE speakers[k].label
            /\ currentSpeaker'.id = currentSpeaker.id
            /\ currentSpeaker'.label =
                 IF currentSpeaker.id = speakerId THEN newLabel ELSE currentSpeaker.label
            /\ \A k \in DOMAIN segments :
                 /\ segments'[k].chunk = segments[k].chunk
                 /\ segments'[k].audio = segments[k].audio
                 /\ segments'[k].speaker.id = segments[k].speaker.id
                 /\ segments'[k].speaker.label =
                      IF segments[k].speaker.id = speakerId
                        THEN newLabel ELSE segments[k].speaker.label]_vars

\* a segment finalized under the old label of its speaker carries the new
\* one, next to a segment of another speaker that kept its label
C13_Witness ==
  \E a, b \in DOMAIN segments :
    /\ segments[a].speaker.id = segments[a].finalSpeaker.id
    /\ segments[a].speaker.label \in NewLabels
    /\ segments[a].finalSpeaker.label \notin NewLabels
    /\ segments[a].speaker.label = RegistryLabel(segments[a].speaker.id)
    /\ segments[b].speaker.id # segments[a].speaker.id
    /\ segments[b].speaker.label \notin NewLabels

\* C14: a speaker switch makes the speaker registered after the current one
\* the current speaker, and the first registered one when the current speaker
\* is the last registered.
C14_NextSpeakerWraps ==
  [][HandleNewSpeaker
       => \E k \in DOMAIN speakers :
            /\ speakers[k].id = currentSpeaker.id
            /\ currentSpeaker' = speakers[(k % Len(speakers)) + 1]]_vars

\* C23: the audio the recorder held when it was paused is part of the first
\* chunk that is submitted after the resume.
C23_PrePauseAudioInFirstChunk ==
  ~lostAfterResume

\* C26: every transcript segment references a speaker of the registry by id,
\* also when the response of a stopped session arrives after the session was
\* cleared.
C26_SegmentSpeakersRegistered ==
  \A i \in DOMAIN segments :
    \E k \in DOMAIN speakers : speakers[k].id = segments[i].speaker.id

\* C27: while the duration timer of a session runs, totalDuration is its
\* value at the start of the session plus the number of ticks since.
C27_DurationAccumulates ==
  durationTimerRef => totalDuration = timerDuration + durationTicks

\* C29: currentSpeaker is null exactly when the registry is empty and is
\* otherwise an entry of the registry, with its id and label; the first
\* speaker added becomes the current speaker and a further one leaves the
\* current speaker as it is.
C29_CurrentSpeakerRegistered ==
  /\ (currentSpeaker = NoSpeaker) <=> (speakers = <<>>)
  /\ currentSpeaker # NoSpeaker =>
       \E k \in DOMAIN speakers : speakers[k] = currentSpeaker

C29_SpeakerRegistry ==
  /\ []C29_CurrentSpeakerRegistered
  /\ [][HandleAddSpeaker =>
          /\ Len(speakers') = Len(speakers) + 1
          /\ IF speakers = <<>>
               THEN currentSpeaker' = speakers'[1]
               ELSE currentSpeaker' = currentSpeaker]_vars

\* a session ran and was cleared, two speakers were added again, the second
\* one was selected and renamed
C29_Witness ==
  /\ durationTicks > 0
  /\ totalDuration = 0
  /\ Len(speakers) = 2
  /\ currentSpeaker = speakers[2]
  /\ currentSpeaker.label \in NewLabels

\* C30: isPaused implies isRecording, isRecording is true exactly when the
\* component holds a live stream and a MediaRecorder that is recording or
\* paused, and isPaused exactly when the MediaRecorder is paused.
C30_FlagsAgreeWithDevice ==
  /\ crIsPaused => crIsRecording
  /\ crIsRecording <=> (streamRef /\ mediaRecorderRef \in {"recording", "paused"})
  /\ crIsPaused <=> (mediaRecorderRef = "paused")

\* ============================================ LiveTranscriptionCaptions
FadeIdle ==
  /\ captions = <<>>
  /\ maxCaptions = DefaultMaxCaptions
  /\ capNow = 0
  /\ captionCount = 0

CapIdle ==
  /\ capServices = <<>>
  /\ serviceRef = 0
  /\ capIsRecording = FALSE

\* startTranscription up to its await: the Start button is rendered while
\* isRecording is false; a new service is created, stored in serviceRef and
\* started (start() up to its await of getUserMedia)
StartTranscription ==
  /\ ~capIsRecording
  /\ Len(capServices) < MaxServices
  /\ capServices' = Append(capServices,
                           [pc |-> "acquiring", audioStream |-> FALSE, chunkTimer |-> FALSE])
  /\ serviceRef' = Len(capServices) + 1
  /\ UNCHANGED capIsRecording
  /\ UNCHANGED ltsVars
  /\ UNCHANGED carVars
  /\ UNCHANGED fadeVars
  /\ UNCHANGED sessVars
  /\ UNCHANGED pauseVars

\* getUserMedia of service k resolved: the service holds the stream, its
\* recorder runs and its chunk timeout is pending; startTranscription goes on
\* after its await with setIsRecording(true)
ServiceStarted(k) ==
  /\ capServices[k].pc = "acquiring"
  /\ capServices' = [capServices EXCEPT ![k] =
                       [pc |-> "started", audioStream |-> TRUE, chunkTimer |-> TRUE]]
  /\ capIsRecording' = TRUE
  /\ UNCHANGED serviceRef
  /\ UNCHANGED ltsVars
  /\ UNCHANGED carVars
  /\ UNCHANGED fadeVars
  /\ UNCHANGED sessVars
  /\ UNCHANGED pauseVars

\* getUserMedia of service k rejected: start() rejects, handleError
ServiceStartFailed(k) ==
  /\ capServices[k].pc = "acquiring"
  /\ capServices' = [capServices EXCEPT ![k].pc = "failed"]
  /\ UNCHANGED <<serviceRef, capIsRecording>>
  /\ UNCHANGED ltsVars
  /\ UNCHANGED carVars
  /\ UNCHANGED fadeVars
  /\ UNCHANGED sessVars
  /\ UNCHANGED pauseVars

\* service.stop(): the timeout is cleared and the stream released, if there
\* are any; a start() that awaits getUserMedia goes on
ServiceStop(service) ==
  IF service.pc = "started"
    THEN [pc |-> "stopped", audioStream |-> FALSE, chunkTimer |-> FALSE]
    ELSE service

\* stopTranscription: the Stop button is rendered while isRecording is true;
\* the service in serviceRef is stopped, serviceRef cleared
StopTranscription ==
  /\ capIsRecording
  /\ IF serviceRef # 0
       THEN capServices' = [capServices EXCEPT ![serviceRef] = ServiceStop(@)]
       ELSE UNCHANGED capServices
  /\ serviceRef' = 0
  /\ capIsRecording' = FALSE
  /\ UNCHANGED ltsVars
  /\ UNCHANGED carVars
  /\ UNCHANGED fadeVars
  /\ UNCHANGED sessVars
  /\ UNCHANGED pauseVars

\* the services that hold a live microphone stream
Capturers == {k \in DOMAIN capServices : capServices[k].audioStream}

\* C18: at most one service holds a live microphone stream, and when the
\* component is stopped no service holds a stream or has a chunk timeout
\* pending.
C18_ExclusiveMicrophone ==
  /\ Cardinality(Capturers) <= 1
  /\ (~capIsRecording /\ serviceRef = 0)
       => \A k \in DOMAIN capServices :
            ~capServices[k].audioStream /\ ~capServices[k].chunkTimer

InitCaptions ==
  /\ ServiceInit
  /\ chunkDuration = DefaultChunkDuration
  /\ targetLanguage = ""
  /\ CarIdle
  /\ CapIdle
  /\ FadeIdle

NextCaptions ==
  \/ StartTranscription
  \/ \E k \in DOMAIN capServices : ServiceStarted(k)
  \/ \E k \in DOMAIN capServices : ServiceStartFailed(k)
  \/ StopTranscription

SpecCaptions == InitCaptions /\ [][NextCaptions]_vars

\* ------------------------------------------------------ caption lines
\* the time between `timestamp: new Date()` in transcribeChunk and the call
\* of onChunkTranscribed: none without translation, the duration of the
\* awaited translateText call with it
TranslateLatencies == {0, 2 * fadeInterval}

\* handleChunkTranscribed(chunk): the caption is appended at opacity 1 with
\* the chunk's timestamp
CaptionArrives(latency) ==
  /\ captionCount < MaxArrivals
  /\ captionCount' = captionCount + 1
  /\ captions' = Append(captions, [id |-> captionCount + 1,
                                   timestamp |-> capNow - latency,
                                   opacity |-> 1000,
                                   insertedAt |-> capNow])
  /\ UNCHANGED <<maxCaptions, capNow>>
  /\ UNCHANGED ltsVars
  /\ UNCHANGED carVars
  /\ UNCHANGED capVars
  /\ UNCHANGED sessVars
  /\ UNCHANGED pauseVars

\* the opacity the interval callback gives a caption of that age
Faded(caption, age) ==
  IF age > fadeStartAge
    THEN [caption EXCEPT !.opacity =
            1000 - ((age - fadeStartAge) * 1000) \div (fadeEndAge - fadeStartAge)]
    ELSE caption

\* .filter(c => c !== null) after the map returned null for age > fadeEndAge
RECURSIVE FadeAll(_, _)
FadeAll(cs, now) ==
  IF cs = <<>> THEN <<>>
  ELSE LET age == now - Head(cs).timestamp IN
         IF age > fadeEndAge
           THEN FadeAll(Tail(cs), now)
           ELSE <<Faded(Head(cs), age)>> \o FadeAll(Tail(cs), now)

\* .slice(-n)
SliceLast(cs, n) ==
  IF Len(cs) <= n THEN cs ELSE SubSeq(cs, Len(cs) - n + 1, Len(cs))

\* the setInterval callback of the fade effect, 100 ms after the previous one
FadeTick ==
  /\ capNow' = capNow + fadeInterval
  /\ captions' = SliceLast(FadeAll(captions, capNow'), maxCaptions)
  /\ UNCHANGED <<maxCaptions, captionCount>>
  /\ UNCHANGED ltsVars
  /\ UNCHANGED carVars
  /\ UNCHANGED capVars
  /\ UNCHANGED sessVars
  /\ UNCHANGED pauseVars

\* the Max Captions slider: setMaxCaptions(n)
SetMaxCaptions(n) ==
  /\ n # maxCaptions
  /\ maxCaptions' = n
  /\ UNCHANGED <<captions, capNow, captionCount>>
  /\ UNCHANGED ltsVars
  /\ UNCHANGED carVars
  /\ UNCHANGED capVars
  /\ UNCHANGED sessVars
  /\ UNCHANGED pauseVars

\* C21: the number of caption lines never exceeds maxCaptions.
C21_CaptionsWithinCap == Len(captions) <= maxCaptions

\* C22: t ms after its insertion a caption has opacity 1 while t < 5000, an
\* opacity strictly between 0 and 1 at t = 7500, and is gone once t exceeds
\* 10000 by more than a tick.
C22_CaptionDecay ==
  \A k \in DOMAIN captions :
    LET t == capNow - captions[k].insertedAt IN
      /\ t < fadeStartAge => captions[k].opacity = 1000
      /\ 2 * t = fadeStartAge + fadeEndAge
           => (captions[k].opacity > 0 /\ captions[k].opacity < 1000)
      /\ t <= fadeEndAge + fadeInterval

\* a session of one caption, watched until it is gone
InitFade ==
  /\ ServiceInit
  /\ chunkDuration = DefaultChunkDuration
  /\ targetLanguage = ""
  /\ CarIdle
  /\ CapIdle
  /\ FadeIdle

FirstCaptionArrives(latency) ==
  /\ captionCount = 0
  /\ CaptionArrives(latency)

FadeTickLong ==
  /\ capNow < MaxFadeTicks * fadeInterval
  /\ FadeTick

NextFade ==
  \/ \E latency \in TranslateLatencies : FirstCaptionArrives(latency)
  \/ FadeTickLong

SpecFade == InitFade /\ [][NextFade]_vars

\* captions arriving in quick succession while the slider is moved
FadeTickShort ==
  /\ capNow < MaxCapTicks * fadeInterval
  /\ FadeTick

NextLines ==
  \/ \E latency \in TranslateLatencies : CaptionArrives(latency)
  \/ FadeTickShort
  \/ \E n \in {MinMaxCaptions, DefaultMaxCaptions} : SetMaxCaptions(n)

SpecLines == InitFade /\ [][NextLines]_vars

Init == ServiceInit /\ CarIdle /\ CapIdle /\ FadeIdle

Next ==
  \/ StartCall
  \/ StartAcquired
  \/ StartRejected
  \/ StartThrew
  \/ Tick
  \/ DataAvailable
  \/ RecorderError
  \/ TimerFired
  \/ PccResume
  \/ \E i \in DOMAIN jobs : JobStart(i)
  \/ \E i \in DOMAIN jobs, decodable \in BOOLEAN, rms \in Volumes :
       AnalyzeDone(i, decodable, rms)
  \/ \E i \in DOMAIN jobs, outcome \in {"fail", "empty", "text"} :
       TranscribeReturn(i, outcome)
  \/ \E i \in DOMAIN jobs, translated \in BOOLEAN : TranslateReturn(i, translated)
  \/ StopCall
  \/ StopDrained
  \/ StopFinish


Spec == Init /\ [][Next]_vars

\* A session with translation configured and the shortest chunk duration.
InitLive ==
  /\ Init
  /\ chunkDuration = MinChunkDuration
  /\ targetLanguage = "es"

\* The event loop runs every callback that is ready: a delivered event, an
\* elapsed timeout, the continuation of a settled promise; and every
\* transcribe and translate call returns.
Fairness ==
  /\ WF_vars(DataAvailable)
  /\ WF_vars(PccResume)
  /\ WF_vars(\E i \in DOMAIN jobs : JobStart(i))
  /\ WF_vars(\E i \in DOMAIN jobs, decodable \in BOOLEAN, rms \in Volumes :
               AnalyzeDone(i, decodable, rms))
  /\ WF_vars(\E i \in DOMAIN jobs, outcome \in {"fail", "empty", "text"} :
               TranscribeReturn(i, outcome))
  /\ WF_vars(\E i \in DOMAIN jobs, translated \in BOOLEAN : TranslateReturn(i, translated))
  /\ WF_vars(StopDrained)
  /\ WF_vars(StopFinish)

\* Tick in the shorter session of the fair specification
TickLive ==
  /\ clock < MaxLiveClock
  /\ Tick

NextLive ==
  \/ StartCall
  \/ StartAcquired
  \/ StartRejected
  \/ StartThrew
  \/ TickLive
  \/ DataAvailable
  \/ RecorderError
  \/ TimerFired
  \/ PccResume
  \/ \E i \in DOMAIN jobs : JobStart(i)
  \/ \E i \in DOMAIN jobs, decodable \in BOOLEAN, rms \in Volumes :
       AnalyzeDone(i, decodable, rms)
  \/ \E i \in DOMAIN jobs, outcome \in {"fail", "empty", "text"} :
       TranscribeReturn(i, outcome)
  \/ \E i \in DOMAIN jobs, translated \in BOOLEAN : TranslateReturn(i, translated)
  \/ StopCall
  \/ StopDrained
  \/ StopFinish

SpecLive == InitLive /\ [][NextLive]_vars /\ Fairness

InitCAR ==
  /\ ServiceInit
  /\ chunkDuration = DefaultChunkDuration
  /\ targetLanguage = ""
  /\ CarIdle
  /\ CapIdle
  /\ FadeIdle

NextCAR ==
  \/ HandleAddSpeaker
  \/ \E k \in 1..MaxSpeakers : HandleSelectSpeaker(k)
  \/ \E speakerId \in 1..MaxSpeakers, newLabel \in NewLabels :
       HandleSaveEdit(speakerId, newLabel)
  \/ StartRecording
  \/ CarTick
  \/ CarDataAvailable
  \/ ChunkTimerFired
  \/ HandleNewSpeaker
  \/ StopRecording
  \/ PauseRecording
  \/ ResumeRecording
  \/ \E r \in requests, outcome \in {"fail", "empty", "text"} :
       TranscriptionResponse(r, outcome)

SpecCAR == InitCAR /\ [][NextCAR]_vars

\* the recorder with the clearing of the session
NextClear ==
  \/ NextCAR
  \/ HandleClearSession

SpecClear == InitCAR /\ [][NextClear]_vars

\* the handlers of a session without microphone time: the recorder gathers
\* no audio, so no chunk is submitted
NextSession ==
  \/ HandleAddSpeaker
  \/ \E k \in 1..MaxSpeakers : HandleSelectSpeaker(k)
  \/ \E speakerId \in 1..MaxSpeakers, newLabel \in NewLabels :
       HandleSaveEdit(speakerId, newLabel)
  \/ StartRecording
  \/ CarDataAvailable
  \/ ChunkTimerFired
  \/ HandleNewSpeaker
  \/ StopRecording
  \/ PauseRecording
  \/ ResumeRecording
  \/ DurationTimerFired
  \/ HandleClearSession
  \/ Unmount

SpecSession == InitCAR /\ [][NextSession]_vars

\* ------------------------------------------------ the reducer on its own
MaxSegments == 2

\* The continuousRecording state RENAME_SPEAKER is applied to: a registry of
\* speakers, renamed or not, one of them current, and segments of a finished
\* session whose speaker carries either label (a segment can carry the label
\* its speaker had before a rename, see C12).
InitRename ==
  /\ ServiceInit
  /\ chunkDuration = DefaultChunkDuration
  /\ targetLanguage = ""
  /\ \E n \in 1..MaxSpeakers, renamed \in SUBSET (1..MaxSpeakers), l \in NewLabels :
       /\ speakers = [k \in 1..n |-> [id |-> k, label |-> IF k \in renamed THEN l ELSE k]]
       /\ \E m \in 0..MaxSegments :
            \E who \in [1..m -> (1..n) \X BOOLEAN] :
              segments =
                [k \in 1..m |->
                   LET speaker == [id |-> who[k][1],
                                   label |-> IF who[k][2] THEN l ELSE who[k][1]]
                   IN [chunk |-> k, audio |-> <<k>>, speaker |-> speaker,
                       finalSpeaker |-> speaker]]
  /\ currentSpeaker \in Range(speakers)
  /\ crIsRecording = FALSE
  /\ crIsPaused = FALSE
  /\ mediaRecorderRef = "null"
  /\ audioChunksRef = <<>>
  /\ streamRef = FALSE
  /\ chunkTimerRef = FALSE
  /\ timerSpeaker = NoSpeaker
  /\ carRecorded = <<>>
  /\ carDataEvents = <<>>
  /\ carClock = 0
  /\ requests = {}
  /\ nextChunk = 1
  /\ carCaptured = {}
  /\ carBoundaries = 0
  /\ submitted = {}
  /\ resubmitted = FALSE
  /\ totalDuration = 0
  /\ timerDuration = 0
  /\ durationTimerRef = FALSE
  /\ durationTicks = 0
  /\ prePause = {}
  /\ lostAfterResume = FALSE
  /\ CapIdle
  /\ FadeIdle

NextRename ==
  \E speakerId \in 1..MaxSpeakers, newLabel \in NewLabels :
    HandleSaveEdit(speakerId, newLabel)

SpecRename == InitRename /\ [][NextRename]_vars
====
